---- MODULE Spec2Model ----
(***************************************************************************)
(* Inquiry service (src/src/server.ts): an Express application with three  *)
(* routes over one Prisma model, "inquiry".  Every request is handled by   *)
(* an async handler on a single-threaded event loop: the synchronous part  *)
(* of the handler runs to its await, the datastore executes the statement  *)
(* atomically, and the continuation after the await sends the response.    *)
(* Requests interleave at the awaits.                                      *)
(***************************************************************************)
EXTENDS Integers, Sequences, FiniteSets, TLC

VARIABLES
  express,   \* major version of the express package the build resolved (4 or 5)
  store,     \* rows of the inquiry table
  clock,     \* wall clock of the datastore, in milliseconds
  nextUuid,  \* number of identifiers uuidv4() has handed out
  alive,     \* the Node process is running
  req        \* the requests: one record per request slot

vars == <<express, store, clock, nextUuid, alive, req>>

----------------------------------------------------------------------------
(* Bounds of the model.                                                    *)

MaxReqs == 3
MaxClock == 1

Reqs == 1..MaxReqs

----------------------------------------------------------------------------
(* JSON values.  A property that is absent from the request body reads as  *)
(* undefined after destructuring; a nullable column left out of the insert *)
(* is stored, and serialised, as null.                                     *)

Undefined == "<undefined>"
Null == "<null>"

(* The date strings sent by clients.  TLC strings are atomic, so the text  *)
(* is paired with the tokens the date parser reads from it: hours,         *)
(* minutes, seconds, the digits after the decimal point and the UTC offset *)
(* in minutes.  Times are counted from 2024-01-01T00:00:00Z.               *)
DateStrings ==
  { "2024-01-01T02:00:00.5+01:00", "2024-01-01T00:00:01.2345Z", "not-a-date" }

NoTokens == [ok |-> FALSE, h |-> 0, m |-> 0, s |-> 0, frac |-> <<>>, tz |-> 0]

Tokens(str) ==
  CASE str = "2024-01-01T02:00:00.5+01:00" ->
         [ok |-> TRUE, h |-> 2, m |-> 0, s |-> 0, frac |-> <<5>>, tz |-> 60]
    [] str = "2024-01-01T00:00:01.2345Z" ->
         [ok |-> TRUE, h |-> 0, m |-> 0, s |-> 1, frac |-> <<2, 3, 4, 5>>, tz |-> 0]
    [] OTHER -> NoTokens

Digit(frac, i) == IF i <= Len(frac) THEN frac[i] ELSE 0

InvalidDate == -1

(* Variant: the UTC offset of the string is ignored.                       *)
NewDate_IgnoresOffset(value) ==
  IF value = Undefined \/ ~Tokens(value).ok THEN InvalidDate
  ELSE LET t == Tokens(value)
       IN  ((t.h * 60 + t.m) * 60 + t.s) * 1000
             + Digit(t.frac, 1) * 100 + Digit(t.frac, 2) * 10 + Digit(t.frac, 3)

(* new Date(value): the time value in milliseconds, or Invalid Date.  The  *)
(* parser keeps the first three digits of the fraction and drops the rest. *)
NewDate(value) ==
  IF value = Undefined \/ ~Tokens(value).ok THEN InvalidDate
  ELSE LET t == Tokens(value)
       IN  ((t.h * 60 + t.m - t.tz) * 60 + t.s) * 1000
             + Digit(t.frac, 1) * 100 + Digit(t.frac, 2) * 10 + Digit(t.frac, 3)

(* Date.prototype.toISOString, used by res.json: UTC, three digits.        *)
ToISOString(ms) ==
  [ok |-> TRUE,
   h |-> ms \div 3600000,
   m |-> (ms \div 60000) % 60,
   s |-> (ms \div 1000) % 60,
   frac |-> <<(ms \div 100) % 10, (ms \div 10) % 10, ms % 10>>,
   tz |-> 0]

----------------------------------------------------------------------------
(* Request bodies.  parse tells what express.json() makes of the payload:  *)
(* "json" for a JSON object, "malformed" for a payload that is not JSON,   *)
(* "none" for a request without a JSON payload.                            *)

Body(parse, name, email, message, eventDate, userId) ==
  [parse |-> parse, name |-> name, email |-> email, message |-> message,
   eventDate |-> eventDate, userId |-> userId]

EmptyBody == Body("none", Undefined, Undefined, Undefined, Undefined, Undefined)

Bodies ==
  { Body("json", "A", "a@x.com", "hi", "2024-01-01T02:00:00.5+01:00", Undefined),
    Body("json", "B", "b@x.com", "yo", "2024-01-01T00:00:01.2345Z", "u1"),
    Body("json", Undefined, "a@x.com", "hi", "2024-01-01T02:00:00.5+01:00", Undefined),
    Body("json", "A", Undefined, "hi", "2024-01-01T02:00:00.5+01:00", Undefined),
    Body("json", "A", "a@x.com", Undefined, "2024-01-01T02:00:00.5+01:00", Undefined),
    Body("json", "A", "a@x.com", "hi", Undefined, Undefined),
    Body("json", "A", "a@x.com", "hi", "not-a-date", Undefined),
    Body("malformed", Undefined, Undefined, Undefined, Undefined, Undefined),
    EmptyBody }

----------------------------------------------------------------------------
(* Responses.                                                              *)

NoResp == [status |-> 0, tag |-> "none", text |-> "", items |-> <<>>]
ErrorResp(text) == [status |-> 500, tag |-> "error", text |-> text, items |-> <<>>]
MessageResp(text) == [status |-> 200, tag |-> "message", text |-> text, items |-> <<>>]

(* JSON.stringify of a row: the Date columns become ISO strings.           *)
Serialise(row) ==
  [row EXCEPT !.eventDate = ToISOString(row.eventDate),
              !.createdAt = ToISOString(row.createdAt),
              !.updatedAt = ToISOString(row.updatedAt)]

ResJson(rows) ==
  [status |-> 200, tag |-> "records", text |-> "",
   items |-> [i \in 1..Len(rows) |-> Serialise(rows[i])]]

----------------------------------------------------------------------------
(* The request slots.                                                      *)

IdleReq ==
  [kind |-> "none", pc |-> "idle", body |-> EmptyBody, target |-> 0,
   uuid |-> 0, calls |-> 0, db |-> "pending", rows |-> <<>>,
   resp |-> NoResp, nresp |-> 0,
   ackedC |-> {}, ackedD |-> {}, existed |-> FALSE, seen |-> {}]

Ids(rows) == { row.id : row \in rows }

(* History read off the request slots: the ids whose create, or delete,    *)
(* has been answered with 200, and the ids whose delete has committed.     *)
AckedCreates ==
  { req[q].uuid : q \in { x \in Reqs : req[x].kind = "create"
                            /\ req[x].pc = "done" /\ req[x].resp.status = 200 } }
AckedDeletes ==
  { req[q].target : q \in { x \in Reqs : req[x].kind = "delete"
                              /\ req[x].pc = "done" /\ req[x].resp.status = 200 } }
CommittedDeletes ==
  { req[q].target : q \in { x \in Reqs : req[x].kind = "delete"
                              /\ req[x].db = "ok" } }

(* A request is taken in free slot r; slots are used in order.             *)
Free(r) ==
  /\ alive
  /\ req[r].pc = "idle"
  /\ IF r = 1 THEN TRUE ELSE req[r - 1].pc # "idle"

Started(kind) ==
  [IdleReq EXCEPT !.kind = kind, !.ackedC = AckedCreates, !.ackedD = AckedDeletes]

(* Every list request in flight observes the table after a write.          *)
Observe(rq, newStore) ==
  [q \in Reqs |->
     IF rq[q].kind = "list" /\ rq[q].pc \in {"awaiting", "settled"}
     THEN [rq[q] EXCEPT !.seen = @ \cup {newStore}]
     ELSE rq[q]]

----------------------------------------------------------------------------
Init ==
  /\ express \in {4, 5}
  /\ store = {}
  /\ clock = 0
  /\ nextUuid = 0
  /\ alive = TRUE
  /\ req = [r \in Reqs |-> IdleReq]

(* The datastore's clock advances.                                         *)
Tick ==
  /\ clock < MaxClock
  /\ clock' = clock + 1
  /\ UNCHANGED <<express, store, nextUuid, alive, req>>

(* The response to a request: res.json / res.status(500).json.             *)
Respond(rq, r, resp) ==
  [rq EXCEPT ![r].pc = "done", ![r].resp = resp, ![r].nresp = @ + 1]

(* Variant: the middleware logs the error and sends nothing.               *)
ErrorMiddleware_LogsOnly(rq, r) == [rq EXCEPT ![r].pc = "hung"]

(* The error-handling middleware: answers a request passed to next(err).   *)
ErrorMiddleware(rq, r) == Respond(rq, r, ErrorResp("Something broke!"))

(* app.use(express.json()): req.body after the payload is parsed.  Without *)
(* a payload express 4 leaves req.body = {} and express 5 leaves it        *)
(* undefined.                                                              *)
BodyDefined(b) == b.parse = "json" \/ (b.parse = "none" /\ express = 4)

(* Variant: the id handed out last is handed out again.                   *)
uuidv4_Repeats == IF nextUuid = 0 THEN nextUuid + 1 ELSE nextUuid

(* uuidv4(): an identifier never handed out before.                        *)
uuidv4 == nextUuid + 1

(* An exception leaves an async handler as a rejected promise.  Express 5  *)
(* passes it to next(err); express 4 ignores the promise, the request is   *)
(* never answered and Node ends the process on the unhandled rejection.    *)
Rejected(rq, r) ==
  IF express = 5 THEN ErrorMiddleware(rq, r) ELSE [rq EXCEPT ![r].pc = "hung"]

(* A POST /api/inquiries arrives: one turn of the event loop runs          *)
(* express.json() and then the route handler up to its await.  A payload   *)
(* that is not JSON goes to next(err) and the handler is skipped.  The     *)
(* handler destructures req.body (a TypeError when it is undefined), draws *)
(* the id and starts prisma.inquiry.create.                                *)
CreateHandler(r, b) ==
  /\ Free(r)
  /\ LET rq == [req EXCEPT ![r] = [Started("create") EXCEPT !.body = b]]
     IN  IF b.parse = "malformed"
         THEN /\ req' = ErrorMiddleware(rq, r)
              /\ UNCHANGED <<nextUuid, alive>>
         ELSE IF ~BodyDefined(b)
         THEN /\ req' = Rejected(rq, r)
              /\ alive' = (express = 5)
              /\ UNCHANGED nextUuid
         ELSE /\ req' = [rq EXCEPT ![r].uuid = uuidv4, ![r].pc = "awaiting",
                                   ![r].calls = @ + 1]
              /\ nextUuid' = nextUuid + 1
              /\ UNCHANGED alive
  /\ UNCHANGED <<express, store, clock>>

----------------------------------------------------------------------------
(* The Prisma schema of the inquiry model: the string columns a create     *)
(* must supply (eventDate is required too, and is checked as a Date); id   *)
(* is the primary key; createdAt and updatedAt are set by the persistence  *)
(* layer; userId is nullable.                                              *)
SchemaRequired == {"name", "email", "message"}

(* Variant: absent strings default to the empty string.                    *)
CreateData_Defaults(r) ==
  [id |-> req[r].uuid,
   name |-> IF req[r].body.name = Undefined THEN "" ELSE req[r].body.name,
   email |-> IF req[r].body.email = Undefined THEN "" ELSE req[r].body.email,
   message |-> IF req[r].body.message = Undefined THEN "" ELSE req[r].body.message,
   eventDate |-> IF req[r].body.eventDate = Undefined THEN 0
                 ELSE NewDate(req[r].body.eventDate),
   userId |-> req[r].body.userId]

(* The data object of the create call.                                     *)
CreateData(r) ==
  [id |-> req[r].uuid,
   name |-> req[r].body.name,
   email |-> req[r].body.email,
   message |-> req[r].body.message,
   eventDate |-> NewDate(req[r].body.eventDate),
   userId |-> req[r].body.userId]

(* How prisma.inquiry.create settles.  The client validates the arguments *)
(* before it contacts the datastore: a required argument that is          *)
(* undefined, or an invalid Date, is a validation error.  Then the         *)
(* datastore may be unreachable, or the primary key may be taken.          *)
CreateOutcome(data, unreachable) ==
  IF (\E f \in SchemaRequired : data[f] = Undefined) \/ data.eventDate = InvalidDate
  THEN "validation"
  ELSE IF unreachable THEN "unreachable"
  ELSE IF data.id \in Ids(store) THEN "unique"
  ELSE "ok"

InsertedRow(data) ==
  [id |-> data.id, name |-> data.name, email |-> data.email,
   message |-> data.message, eventDate |-> data.eventDate,
   userId |-> IF data.userId = Undefined THEN Null ELSE data.userId,
   createdAt |-> clock, updatedAt |-> clock]

(* await prisma.inquiry.create({data}): one INSERT, or an exception.  The  *)
(* datastore may also be unreachable.                                      *)
PrismaCreate(r) ==
  /\ alive
  /\ req[r].kind = "create" /\ req[r].pc = "awaiting"
  /\ \E unreachable \in BOOLEAN :
       LET outcome == CreateOutcome(CreateData(r), unreachable)
           row == InsertedRow(CreateData(r))
       IN  IF outcome # "ok"
           THEN /\ req' = [req EXCEPT ![r].pc = "settled", ![r].db = outcome]
                /\ UNCHANGED store
           ELSE /\ store' = store \cup {row}
                /\ req' = [Observe(req, store') EXCEPT
                             ![r].pc = "settled", ![r].db = "ok",
                             ![r].rows = <<row>>]
  /\ UNCHANGED <<express, clock, nextUuid, alive>>

(* The create handler after the await: res.json(inquiry), or the catch.    *)
CreateResponse(r) ==
  IF req[r].db = "ok" THEN ResJson(req[r].rows)
  ELSE ErrorResp("Failed to create inquiry")

CreateRespond(r) ==
  /\ alive
  /\ req[r].kind = "create" /\ req[r].pc = "settled"
  /\ req' = Respond(req, r, CreateResponse(r))
  /\ UNCHANGED <<express, store, clock, nextUuid, alive>>

----------------------------------------------------------------------------
(* app.get("/api/inquiries"), up to the await.                             *)
ListHandler(r) ==
  /\ Free(r)
  /\ req' = [req EXCEPT ![r] =
       [Started("list") EXCEPT !.pc = "awaiting", !.calls = 1,
                               !.seen = {store}]]
  /\ UNCHANGED <<express, store, clock, nextUuid, alive>>

(* Variant: the query carries take: 1.                                     *)
OrderedByCreatedAtDesc_FirstOnly(rows) ==
  IF rows = {} THEN { <<>> }
  ELSE { <<row>> : row \in { x \in rows : \A y \in rows : x.createdAt >= y.createdAt } }

(* The sequences that hold every row of the table once, in an order that   *)
(* ORDER BY "createdAt" DESC allows: rows with equal createdAt come in an  *)
(* order the datastore chooses.                                            *)
OrderedByCreatedAtDesc(rows) ==
  { s \in [1..Cardinality(rows) -> rows] :
      /\ \A i, j \in DOMAIN s : i # j => s[i] # s[j]
      /\ \A i, j \in DOMAIN s : i < j => s[i].createdAt >= s[j].createdAt }

(* await prisma.inquiry.findMany({orderBy: {createdAt: "desc"}}).          *)
PrismaFindMany(r) ==
  /\ alive
  /\ req[r].kind = "list" /\ req[r].pc = "awaiting"
  /\ \E unreachable \in BOOLEAN :
       IF unreachable
       THEN req' = [req EXCEPT ![r].pc = "settled", ![r].db = "unreachable"]
       ELSE \E rows \in OrderedByCreatedAtDesc(store) :
              req' = [req EXCEPT ![r].pc = "settled", ![r].db = "ok",
                                 ![r].rows = rows]
  /\ UNCHANGED <<express, store, clock, nextUuid, alive>>

(* Variant: a failed query is answered with an empty array.                *)
ListResponse_EmptyOnError(r) ==
  IF req[r].db = "ok" THEN ResJson(req[r].rows) ELSE ResJson(<<>>)

ListResponse(r) ==
  IF req[r].db = "ok" THEN ResJson(req[r].rows)
  ELSE ErrorResp("Failed to fetch inquiries")

ListRespond(r) ==
  /\ alive
  /\ req[r].kind = "list" /\ req[r].pc = "settled"
  /\ req' = Respond(req, r, ListResponse(r))
  /\ UNCHANGED <<express, store, clock, nextUuid, alive>>

----------------------------------------------------------------------------
(* The ids a client can put in the path of a DELETE: the ids it has read   *)
(* in a response of this service, and an id the service never handed out   *)
(* (written 0).                                                            *)
KnownIds ==
  {0} \cup UNION { { req[q].resp.items[i].id : i \in DOMAIN req[q].resp.items } :
                     q \in Reqs }

(* app.delete("/api/inquiries/:id"), up to the await.                      *)
DeleteHandler(r, id) ==
  /\ Free(r)
  /\ req' = [req EXCEPT ![r] =
       [Started("delete") EXCEPT !.pc = "awaiting", !.calls = 1,
                                 !.target = id,
                                 !.existed = (id \in Ids(store))]]
  /\ UNCHANGED <<express, store, clock, nextUuid, alive>>

(* Variant: deleteMany, which does not throw when no row matches.          *)
DeleteOutcome_DeleteMany(id, unreachable) ==
  IF unreachable THEN "unreachable" ELSE "ok"

(* How prisma.inquiry.delete({where: {id}}) settles: it throws when the    *)
(* datastore is unreachable and when no row has the id.                    *)
DeleteOutcome(id, unreachable) ==
  IF unreachable THEN "unreachable"
  ELSE IF id \notin Ids(store) THEN "notfound"
  ELSE "ok"

(* Variant: the where clause is lost and every row goes.                   *)
RowsAfterDelete_NoWhere(id) == {}

(* The table after DELETE ... WHERE id = $1.                               *)
RowsAfterDelete(id) == { row \in store : row.id # id }

PrismaDelete(r) ==
  /\ alive
  /\ req[r].kind = "delete" /\ req[r].pc = "awaiting"
  /\ \E unreachable \in BOOLEAN :
       LET outcome == DeleteOutcome(req[r].target, unreachable)
       IN  IF outcome # "ok"
           THEN /\ req' = [req EXCEPT ![r].pc = "settled", ![r].db = outcome]
                /\ UNCHANGED store
           ELSE /\ store' = RowsAfterDelete(req[r].target)
                /\ req' = [Observe(req, store') EXCEPT
                             ![r].pc = "settled", ![r].db = "ok"]
  /\ UNCHANGED <<express, clock, nextUuid, alive>>

(* Variant: a missing row is answered with 404.                            *)
DeleteResponse_NotFound(r) ==
  IF req[r].db = "ok" THEN MessageResp("Inquiry deleted successfully")
  ELSE IF req[r].db = "notfound"
  THEN [status |-> 404, tag |-> "error", text |-> "Inquiry not found", items |-> <<>>]
  ELSE ErrorResp("Failed to delete inquiry")

DeleteResponse(r) ==
  IF req[r].db = "ok" THEN MessageResp("Inquiry deleted successfully")
  ELSE ErrorResp("Failed to delete inquiry")

DeleteRespond(r) ==
  /\ alive
  /\ req[r].kind = "delete" /\ req[r].pc = "settled"
  /\ req' = Respond(req, r, DeleteResponse(r))
  /\ UNCHANGED <<express, store, clock, nextUuid, alive>>

----------------------------------------------------------------------------
Next ==
  \/ Tick
  \/ \E r \in Reqs, b \in Bodies : CreateHandler(r, b)
  \/ \E r \in Reqs : PrismaCreate(r)
  \/ \E r \in Reqs : CreateRespond(r)
  \/ \E r \in Reqs : ListHandler(r)
  \/ \E r \in Reqs : PrismaFindMany(r)
  \/ \E r \in Reqs : ListRespond(r)
  \/ \E r \in Reqs, id \in KnownIds : DeleteHandler(r, id)
  \/ \E r \in Reqs : PrismaDelete(r)
  \/ \E r \in Reqs : DeleteRespond(r)

Spec == Init /\ [][Next]_vars

----------------------------------------------------------------------------
(* Vocabulary of the properties.                                           *)

Of(kind) == { r \in Reqs : req[r].kind = kind }
Answered(r) == req[r].pc = "done"
Ok(r) == Answered(r) /\ req[r].resp.status = 200
Items(l) == req[l].resp.items
ItemIds(l) == { Items(l)[i].id : i \in DOMAIN Items(l) }
Position(l, id) == CHOOSE i \in DOMAIN Items(l) : Items(l)[i].id = id
DeleteTargets == { req[d].target : d \in Of("delete") }
Committed(c) == req[c].kind = "create" /\ req[c].db = "ok"
(* List l started after create c was answered with 200.                    *)
Later(l, c) == req[c].uuid \in req[l].ackedC

(* The instant a date string denotes, in tenths of a millisecond (the      *)
(* strings of the model carry at most four digits after the point).        *)
DenotedInstant(t) ==
  ((t.h * 60 + t.m - t.tz) * 60 + t.s) * 10000
    + Digit(t.frac, 1) * 1000 + Digit(t.frac, 2) * 100
    + Digit(t.frac, 3) * 10 + Digit(t.frac, 4)
Truncated(instant) == (instant \div 10) * 10

(* The strings of an item equal the submitted ones; an absent userId is    *)
(* returned as null.                                                       *)
EchoesStrings(item, body) ==
  /\ item.name = body.name
  /\ item.email = body.email
  /\ item.message = body.message
  /\ item.userId = IF body.userId = Undefined THEN Null ELSE body.userId

ListedOnce(l, c) ==
  Cardinality({ i \in DOMAIN Items(l) : Items(l)[i].id = req[c].uuid }) = 1

CreateThenList(c, l) ==
  /\ Ok(c) /\ Ok(l) /\ Later(l, c)
  /\ req[c].uuid \notin DeleteTargets

(* C1, as stated: after a create is answered with 200 and no delete for    *)
(* its id is issued, every later successful list holds the record exactly  *)
(* once, its strings equal to the submitted ones and its eventDate the     *)
(* instant the submitted string denotes.                                   *)
C1_RoundTripExact ==
  \A c \in Of("create"), l \in Of("list") :
    CreateThenList(c, l) =>
      /\ ListedOnce(l, c)
      /\ LET item == Items(l)[Position(l, req[c].uuid)]
         IN  /\ EchoesStrings(item, req[c].body)
             /\ DenotedInstant(item.eventDate)
                  = DenotedInstant(Tokens(req[c].body.eventDate))

(* C1, amended: as above, with the eventDate equal to the instant the      *)
(* submitted string denotes truncated to whole milliseconds.               *)
C1_RoundTripMillis ==
  \A c \in Of("create"), l \in Of("list") :
    CreateThenList(c, l) =>
      /\ ListedOnce(l, c)
      /\ LET item == Items(l)[Position(l, req[c].uuid)]
         IN  /\ EchoesStrings(item, req[c].body)
             /\ DenotedInstant(item.eventDate)
                  = Truncated(DenotedInstant(Tokens(req[c].body.eventDate)))

(* Two creates answered with 200, one with a userId and an offset date,    *)
(* one with digits beyond the millisecond, and a later list with both.     *)
C1_Witness ==
  \E c1, c2 \in Of("create"), l \in Of("list") :
    /\ CreateThenList(c1, l) /\ CreateThenList(c2, l)
    /\ req[c1].body.userId = Undefined /\ req[c2].body.userId # Undefined
    /\ Tokens(req[c1].body.eventDate).tz # 0
    /\ Len(Tokens(req[c2].body.eventDate).frac) > 3

----------------------------------------------------------------------------
(* List l started when every create that has committed had already been    *)
(* answered with 200, and no delete was ever issued.                       *)
AfterCreatesOnly(l) ==
  /\ Ok(l)
  /\ Of("delete") = {}
  /\ \A c \in Of("create") : Committed(c) => Later(l, c)

(* Create b was issued after create a was answered with 200.               *)
IssuedAfter(b, a) == req[a].uuid \in req[b].ackedC

(* C2: after N successful creates and no deletes a list returns exactly N  *)
(* records, and of two creates of which the first was answered before the  *)
(* second was issued, the second's record comes before the first's, also   *)
(* when both records carry the same createdAt.                             *)
C2_NewestFirst ==
  \A l \in Of("list") :
    AfterCreatesOnly(l) =>
      /\ Len(Items(l)) = Cardinality(req[l].ackedC)
      /\ ItemIds(l) = req[l].ackedC
      /\ \A a, b \in Of("create") :
           Later(l, a) /\ Later(l, b) /\ IssuedAfter(b, a) =>
             Position(l, req[b].uuid) < Position(l, req[a].uuid)

----------------------------------------------------------------------------
(* The persistence step of delete request d.                               *)
DeleteSettles(d) ==
  req[d].kind = "delete" /\ req[d].pc = "awaiting" /\ req'[d].pc = "settled"

(* C3: a delete of an id in the table removes exactly the row with that id *)
(* and leaves every other row as it is; a delete of an id that is not in   *)
(* the table leaves the table unchanged; a list that starts after a delete *)
(* was answered with 200 omits the deleted id.                             *)
C3_DeleteRemovesExactlyOne ==
  /\ [][\A d \in Reqs : DeleteSettles(d) =>
           /\ req[d].target \notin Ids(store) => store' = store
           /\ req'[d].db = "ok" =>
                /\ req[d].target \in Ids(store)
                /\ store' = { row \in store : row.id # req[d].target }
                /\ Cardinality(store') = Cardinality(store) - 1
           /\ req'[d].db # "ok" => store' = store]_vars
  /\ [](\A l \in Of("list") : Ok(l) => ItemIds(l) \cap req[l].ackedD = {})

(* A delete answered with 200 while another record stays in the table.     *)
C3_Witness ==
  \E d \in Of("delete") :
    /\ Ok(d)
    /\ req[d].existed
    /\ store # {}
    /\ req[d].target \notin Ids(store)

----------------------------------------------------------------------------
(* The id a successful create returned.                                    *)
ReturnedId(c) == Items(c)[1].id

(* C4: no two rows of the table share an id, and the ids returned by two   *)
(* successful creates differ, whether or not the earlier record has been   *)
(* deleted since.                                                          *)
C4_IdsUnique ==
  /\ \A x, y \in store : x.id = y.id => x = y
  /\ \A a, b \in Of("create") :
       a # b /\ Ok(a) /\ Ok(b) => ReturnedId(a) # ReturnedId(b)

(* Two creates answered with 200, the first record deleted before the      *)
(* second create was issued.                                               *)
C4_Witness ==
  \E a, b \in Of("create"), d \in Of("delete") :
    /\ Ok(a) /\ Ok(b) /\ Ok(d)
    /\ req[d].target = ReturnedId(a)
    /\ req[d].target \in req[b].ackedD

----------------------------------------------------------------------------
RequiredFields == {"name", "email", "message", "eventDate"}

(* Create request c carries a JSON body without one of the four fields.    *)
Omits(c, f) ==
  /\ req[c].kind = "create"
  /\ req[c].body.parse = "json"
  /\ req[c].body[f] = Undefined

(* C5: a create that omits name, email, message or eventDate is answered   *)
(* with 500 "Failed to create inquiry", and no step of the request changes *)
(* the table.                                                              *)
C5_OmittedFieldFails ==
  /\ [](\A c \in Reqs, f \in RequiredFields :
          Omits(c, f) =>
            /\ req[c].uuid \notin Ids(store)
            /\ Answered(c) => req[c].resp = ErrorResp("Failed to create inquiry"))
  /\ [][\A c \in Reqs, f \in RequiredFields :
          Omits(c, f)' /\ req'[c] # req[c] => store' = store]_vars

(* Each of the four fields has been omitted by an answered create, next to *)
(* a record that is in the table.                                          *)
C5_Witness ==
  /\ store # {}
  /\ \E c \in Reqs : Omits(c, "eventDate") /\ Answered(c)
  /\ \E c \in Reqs, f \in {"name", "email", "message"} : Omits(c, f) /\ Answered(c)

----------------------------------------------------------------------------
(* The ids of the rows ever inserted.                                      *)
CreatedIds == { req[c].uuid : c \in { x \in Reqs : Committed(x) } }

(* C6: a delete of an id that was never created is answered with 500       *)
(* "Failed to delete inquiry", never with 200, and the process keeps       *)
(* serving: it is running and no request is left unanswered by a crash.    *)
C6_DeleteUnknownFails ==
  \A d \in Of("delete") :
    Answered(d) /\ req[d].target \notin CreatedIds =>
      /\ req[d].resp = ErrorResp("Failed to delete inquiry")
      /\ alive
      /\ \A q \in Reqs : req[q].pc # "hung"

(* A delete of an unknown id was answered, and requests that arrived after *)
(* that answer were served: a create and a list, both with 200.            *)
C6_Witness ==
  \E d \in Of("delete"), c \in Of("create"), l \in Of("list") :
    /\ Answered(d) /\ req[d].target \notin CreatedIds
    /\ d < c /\ c < l
    /\ Ok(c) /\ Ok(l) /\ Later(l, c)

----------------------------------------------------------------------------
FixedMessage(kind) ==
  CASE kind = "create" -> "Failed to create inquiry"
    [] kind = "list" -> "Failed to fetch inquiries"
    [] kind = "delete" -> "Failed to delete inquiry"

PersistenceFailed(r) == req[r].db \notin {"pending", "ok"}

(* C7: when the persistence call of a create, list or delete fails, for    *)
(* whatever reason, the request is answered once, with 500 and the fixed   *)
(* message of the operation and nothing else, and the persistence call was *)
(* made once.                                                              *)
C7_UniformFailure ==
  \A r \in Reqs :
    PersistenceFailed(r) =>
      /\ req[r].calls = 1
      /\ req[r].pc \in {"settled", "done"}
      /\ Answered(r) =>
           /\ req[r].resp = ErrorResp(FixedMessage(req[r].kind))
           /\ req[r].nresp = 1

(* Three answered requests, one of each operation, failed for three        *)
(* different reasons.                                                      *)
C7_Witness ==
  \E c \in Of("create"), l \in Of("list"), d \in Of("delete") :
    /\ Answered(c) /\ Answered(l) /\ Answered(d)
    /\ req[c].db = "validation"
    /\ req[l].db = "unreachable"
    /\ req[d].db = "notfound"

----------------------------------------------------------------------------
(* Request r failed outside the try/catch of its handler: its payload was  *)
(* not JSON, or the handler threw before it entered the try block.         *)
FailedOutsideTry(r) ==
  /\ req[r].kind = "create"
  /\ req[r].calls = 0

(* C8: a request that fails outside the try/catch of its handler is        *)
(* answered, exactly once, with 500 "Something broke!".                    *)
C8_CatchAll ==
  \A r \in Reqs :
    FailedOutsideTry(r) =>
      /\ Answered(r)
      /\ req[r].nresp = 1
      /\ req[r].resp = ErrorResp("Something broke!")

(* A payload that is not JSON and a handler that threw on an undefined     *)
(* req.body, both answered.                                                *)
C8_Witness ==
  \E r, q \in Of("create") :
    /\ req[r].body.parse = "malformed" /\ Answered(r)
    /\ req[q].body.parse = "none" /\ req[q].calls = 0 /\ Answered(q)

----------------------------------------------------------------------------
(* The response step of list request l.                                    *)
ListAnswers(l) ==
  req[l].kind = "list" /\ req[l].pc = "settled" /\ req'[l].pc = "done"

ItemSet(items) == { items[i] : i \in DOMAIN items }

(* C9: the array of a successful list is the table as it was at one        *)
(* instant between the start of the request and its response, each row     *)
(* once; it holds every record whose create was answered before the list   *)
(* started and that was not deleted before the list was answered, and no   *)
(* record whose delete was answered before the list started.               *)
C9_ListIsSnapshot ==
  [][\A l \in Reqs :
       ListAnswers(l) /\ req'[l].resp.status = 200 =>
         LET items == req'[l].resp.items
             ids == { items[i].id : i \in DOMAIN items }
         IN  /\ \E table \in req[l].seen :
                  /\ ItemSet(items) = { Serialise(row) : row \in table }
                  /\ Len(items) = Cardinality(table)
             /\ (req[l].ackedC \ CommittedDeletes) \subseteq ids
             /\ ids \cap req[l].ackedD = {}]_vars

(* A list answered with 200 while the table changed twice during the       *)
(* request, and two creates in flight together of which the one that       *)
(* committed second was answered first.                                    *)
C9_Witness ==
  \E l \in Of("list"), a, b \in Of("create") :
    /\ Ok(l) /\ Cardinality(req[l].seen) = 3
    /\ Len(Items(l)) = 1
    /\ Committed(a) /\ Committed(b)
    /\ req[a].rows[1].createdAt < req[b].rows[1].createdAt
    /\ req[a].pc = "settled" /\ Ok(b)

----------------------------------------------------------------------------
(* The delete requests for id that found the record in the table when they *)
(* started.                                                                *)
RacingDeletes(id) ==
  { d \in Of("delete") : req[d].target = id /\ req[d].existed }

(* C10, as stated: of two or more deletes in flight together for the same  *)
(* existing id, exactly one is answered with 200 and every other one with  *)
(* 500 "Failed to delete inquiry".                                         *)
C10_ExactlyOneDeleteWins ==
  \A id \in DeleteTargets :
    LET racing == RacingDeletes(id)
    IN  Cardinality(racing) >= 2 /\ (\A d \in racing : Answered(d)) =>
          /\ Cardinality({ d \in racing : Ok(d) }) = 1
          /\ \A d \in racing :
               ~Ok(d) => req[d].resp = ErrorResp("Failed to delete inquiry")

(* C10, amended: at most one of them is answered with 200, and exactly one *)
(* when the datastore executed the statement of each; every other one is   *)
(* answered with 500 "Failed to delete inquiry"; the record is out of the  *)
(* table once one is answered with 200, and the records no delete was      *)
(* issued for stay.                                                        *)
C10_AtMostOneDeleteWins ==
  /\ CreatedIds \ DeleteTargets \subseteq Ids(store)
  /\ \A id \in DeleteTargets :
       LET racing == RacingDeletes(id)
       IN  Cardinality(racing) >= 2 /\ (\A d \in racing : Answered(d)) =>
             /\ Cardinality({ d \in racing : Ok(d) }) <= 1
             /\ (\A d \in racing : req[d].db # "unreachable") =>
                  Cardinality({ d \in racing : Ok(d) }) = 1
             /\ (\E d \in racing : Ok(d)) => id \notin Ids(store)
             /\ \A d \in racing :
                  /\ ~Ok(d) => req[d].resp = ErrorResp("Failed to delete inquiry")
                  /\ Ok(d) => req[d].resp = MessageResp("Inquiry deleted successfully")

(* Two deletes for one record, both started while it was in the table and  *)
(* before either reached the datastore: one answered with 200, one with    *)
(* 500 for the missing row.                                                *)
C10_Witness ==
  \E d1, d2 \in Of("delete") :
    /\ d1 # d2 /\ req[d1].target = req[d2].target
    /\ req[d1].existed /\ req[d2].existed
    /\ Ok(d1) /\ Answered(d2) /\ req[d2].db = "notfound"

====
